---------------------------- MODULE Spec2Model ----------------------------
(***************************************************************************)
(* Schedule API of the blog backend (app/api/schedules.py): the schedule   *)
(* store, the cron calculator, the CRUD handlers, the cron-driven trigger  *)
(* endpoint and the stats aggregator.                                      *)
(*                                                                         *)
(* Time is counted in whole hours since 2024-01-01T00:00:00Z (a Monday).   *)
(* Every cron expression the application builds has minute 0, so an        *)
(* instant inside an hour behaves like the start of that hour for both     *)
(* the due test (next_run_at <= now) and the next-run computation.         *)
(***************************************************************************)
EXTENDS Integers, Sequences, FiniteSets, TLC

(***************************************************************************)
(* Bounds of the model                                                     *)
(***************************************************************************)
\* days during which requests arrive
MaxDays == 2
\* rows of the schedule table in the stats aggregator's input space
MaxStatRows == 6
\* jobs waiting in the Celery queue
MaxQueue == 1

(***************************************************************************)
(* Program constants                                                       *)
(***************************************************************************)
\* schedule.next_run_at = None
Null == -1
\* upcoming[:5]
UpcomingLimit == 5

\* T3 is a tenant without agents
Tenants == {"T1", "T2", "T3"}
\* agents table: agents 1..MaxStatRows belong to T1, the others to T2
Agents == 1..(2 * MaxStatRows)
TenantOf(a) == IF a <= MaxStatRows THEN "T1" ELSE "T2"
AgentName(a) == <<"agent", a>>
\* agents the CRUD requests of the model address (one per tenant)
CrudAgents == {1, MaxStatRows + 1}
ScheduleIds == 1..MaxStatRows
\* request slots: one request is in flight per slot
Slots == {1, 2}

Intervals == {"daily", "weekly"}
\* publish_hour values the requests use (the field ranges over 0..23)
Hours == {9, 10}
\* hours of the day at which requests arrive
PollHours == {8, 9, 10}
Instants == {t \in 0..(24 * MaxDays - 1) : (t % 24) \in PollHours}
\* settings.CRON_SECRET when the variable is not set, and an absent header
NoSecret == "none"
JWT_SECRET == "jwt"
\* values of the X-Cron-Secret header
Headers == {NoSecret, "cron", "jwt", "bad"}

VARIABLES
    clock,        \* datetime.utcnow(), in hours
    CRON_SECRET,  \* settings.CRON_SECRET (NoSecret when not set)
    db,           \* table schedule_configs: id -> row
    req,          \* per slot: the request in flight and its position
    resp,         \* the last response sent
    celery,       \* Celery queue filled by auto_generate_and_publish.delay
    fetched       \* rows the last select of get_schedule_stats returned

vars == <<clock, CRON_SECRET, db, req, resp, celery, fetched>>

(***************************************************************************)
(* Helpers on sequences and sets                                           *)
(***************************************************************************)
Range(s) == {s[i] : i \in DOMAIN s}

Count(s, x) == Cardinality({i \in DOMAIN s : s[i] = x})

Min(a, b) == IF a <= b THEN a ELSE b

\* every order in which a select without ORDER BY may return the rows S
RECURSIVE Orders(_)
Orders(S) ==
    IF S = {} THEN {<<>>}
    ELSE UNION {{<<x>> \o s : s \in Orders(S \ {x})} : x \in S}

RECURSIVE SumOver(_, _)
\* Python's sum(f(s) for s in schedules), f given as a sequence of numbers
SumOver(s, i) == IF i > Len(s) THEN 0 ELSE s[i] + SumOver(s, i + 1)

(***************************************************************************)
(* Cron calculator                                                         *)
(***************************************************************************)
\* weekday of an instant in cron numbering (0 = Sunday); hour 0 is a Monday
Weekday(t) == ((t \div 24) + 1) % 7

\* ScheduleConfig.get_cron_expression: "0 <hour> * * *" for daily,
\* "0 <hour> * * 1" for weekly; dow is the set of weekdays the field allows
get_cron_expression(s) ==
    [hour |-> s.publish_hour,
     dow  |-> IF s.interval = "daily" THEN 0..6 ELSE {1}]

\* croniter: does the instant t match the expression
CronMatches(cron, t) == (t % 24 = cron.hour) /\ (Weekday(t) \in cron.dow)

RECURSIVE NextMatch(_, _)
\* croniter.get_next: step day by day from the candidate until the weekday fits
NextMatch(cron, c) == IF Weekday(c) \in cron.dow THEN c ELSE NextMatch(cron, c + 24)

\* calculate_next_run with a get_next that accepts from_time itself
calculate_next_run_inclusive(cron_expr, from_time) ==
    LET today == from_time - (from_time % 24) + cron_expr.hour
        first == IF today >= from_time THEN today ELSE today + 24
    IN  NextMatch(cron_expr, first)

\* calculate_next_run that never returns an instant of the current day
calculate_next_run_tomorrow(cron_expr, from_time) ==
    NextMatch(cron_expr, from_time - (from_time % 24) + cron_expr.hour + 24)

\* calculate_next_run(cron_expr, from_time): croniter(cron_expr, from_time).get_next
calculate_next_run(cron_expr, from_time) ==
    LET today == from_time - (from_time % 24) + cron_expr.hour
        first == IF today > from_time THEN today ELSE today + 24
    IN  NextMatch(cron_expr, first)

(***************************************************************************)
(* Store queries                                                           *)
(***************************************************************************)
\* select(Agent).where(Agent.id == agent_id, Agent.tenant_id == tenant)
AgentOfTenant(agent_id, tenant) ==
    agent_id \in Agents /\ TenantOf(agent_id) = tenant

\* the ownership query without its tenant condition
OwnsScheduleAnyTenant(sid, tenant) == TRUE

\* "Verify ownership": the schedule's agent belongs to the user's tenant
OwnsSchedule(sid, tenant) == AgentOfTenant(db[sid].agent_id, tenant)

\* select(Agent.id).where(Agent.tenant_id == tenant)
AgentIds(tenant) == {a \in Agents : TenantOf(a) = tenant}

\* select(ScheduleConfig).where(ScheduleConfig.agent_id == agent_id)
SchedulesOfAgent(agent_id) == {sid \in DOMAIN db : db[sid].agent_id = agent_id}

\* select(ScheduleConfig).where(ScheduleConfig.agent_id.in_(agent_ids))
SchedulesOfAgents(agent_ids) == {sid \in DOMAIN db : db[sid].agent_id \in agent_ids}

\* the due select with next_run_at < now
DueSchedulesStrict(now) ==
    {sid \in DOMAIN db :
        db[sid].is_active /\ db[sid].next_run_at # Null /\ db[sid].next_run_at < now}

\* select(ScheduleConfig).where(is_active == True, next_run_at <= now);
\* a NULL next_run_at never satisfies the comparison
DueSchedules(now) ==
    {sid \in DOMAIN db :
        db[sid].is_active /\ db[sid].next_run_at # Null /\ db[sid].next_run_at <= now}

\* the primary key of a new row (uuid4: any id not in use)
FreshIds == IF ScheduleIds \ DOMAIN db = {} THEN {}
            ELSE {CHOOSE i \in ScheduleIds \ DOMAIN db :
                     \A j \in ScheduleIds \ DOMAIN db : i <= j}

Insert(sid, row) == [i \in DOMAIN db \cup {sid} |-> IF i = sid THEN row ELSE db[i]]

Delete(sid) == [i \in DOMAIN db \ {sid} |-> db[i]]

(***************************************************************************)
(* Requests and responses                                                  *)
(***************************************************************************)
Idle == [pc |-> "idle"]

Response(op, status, body) == [op |-> op, status |-> status, body |-> body]

NoBody == <<>>

NoResponse == Response("none", 0, NoBody)

\* The handlers are coroutines of one event loop.  A background task is
\* awaited on that loop and run_auto_publish_for_schedule calls the worker
\* without an await, so nothing else runs while a worker is running.
LoopFree == \A q \in Slots : req[q].pc # "working"

\* slot p takes a request once the previous response has left
Ready(p) == req[p].pc = "idle" /\ resp = NoResponse /\ LoopFree

\* the first request arrives at 2024-01-01T08:00Z; the table is empty and
\* CRON_SECRET is not set
Init ==
    /\ clock = 8
    /\ CRON_SECRET = NoSecret
    /\ db = <<>>
    /\ req = [p \in Slots |-> Idle]
    /\ resp = NoResponse
    /\ celery = <<>>
    /\ fetched = <<>>

\* time passes to the next instant at which a request arrives
Tick ==
    /\ \E t \in Instants :
          /\ t > clock
          /\ \A u \in Instants : u > clock => t <= u
          /\ clock' = t
    /\ UNCHANGED <<CRON_SECRET, db, req, resp, celery, fetched>>


\* the response leaves the server
Deliver ==
    /\ resp # NoResponse
    /\ resp' = NoResponse
    /\ UNCHANGED <<clock, CRON_SECRET, db, req, celery, fetched>>

(***************************************************************************)
(* CRUD handlers.  A handler runs in a request slot p and is one step.     *)
(* Where requests overlap, create_schedule is two steps: create_check up   *)
(* to the existence check, create_commit from there on.                    *)
(***************************************************************************)
Others == <<CRON_SECRET, clock, celery, fetched>>

NewRow(data, now) ==
    [agent_id     |-> data.agent_id,
     interval     |-> data.interval,
     publish_hour |-> data.publish_hour,
     is_active    |-> data.is_active,
     next_run_at  |-> calculate_next_run(get_cron_expression(data), now),
     total_posts_generated |-> 0,
     successful_posts      |-> 0,
     failed_posts          |-> 0]

CreateData == [agent_id : CrudAgents, interval : Intervals,
               publish_hour : Hours, is_active : BOOLEAN]

\* create_schedule, served without another request in between
create_schedule(p, tenant, data) ==
    /\ Ready(p)
    /\ IF ~AgentOfTenant(data.agent_id, tenant)
       THEN /\ resp' = Response("create_schedule", 404, NoBody)
            /\ UNCHANGED db
       ELSE IF SchedulesOfAgent(data.agent_id) # {}
       THEN /\ resp' = Response("create_schedule", 400, NoBody)
            /\ UNCHANGED db
       ELSE \E sid \in FreshIds :
               /\ db' = Insert(sid, NewRow(data, clock))
               /\ resp' = Response("create_schedule", 201, NoBody)
    /\ UNCHANGED <<req, Others>>

\* create_schedule up to its commit: the agent query and the existence check
create_check(p, tenant, data) ==
    /\ Ready(p)
    /\ IF ~AgentOfTenant(data.agent_id, tenant)
       THEN /\ resp' = Response("create_schedule", 404, NoBody)
            /\ UNCHANGED req
       ELSE IF SchedulesOfAgent(data.agent_id) # {}
       THEN /\ resp' = Response("create_schedule", 400, NoBody)
            /\ UNCHANGED req
       ELSE /\ req' = [req EXCEPT ![p] = [pc |-> "create_commit", data |-> data]]
            /\ UNCHANGED resp
    /\ UNCHANGED <<db, Others>>

\* ScheduleConfig.agent_id is unique: the insert of a second row for the agent
\* fails at commit (IntegrityError)
UniqueViolation(agent_id) == SchedulesOfAgent(agent_id) # {}

\* create_schedule from the construction of the row to the response
create_commit(p) ==
    /\ req[p].pc = "create_commit"
    /\ resp = NoResponse
    /\ LoopFree
    /\ LET data == req[p].data
       IN  IF UniqueViolation(data.agent_id)
           THEN /\ resp' = Response("create_schedule", 500, NoBody)
                /\ UNCHANGED db
           ELSE \E sid \in FreshIds :
                   /\ db' = Insert(sid, NewRow(data, clock))
                   /\ resp' = Response("create_schedule", 201, NoBody)
    /\ req' = [req EXCEPT ![p] = Idle]
    /\ UNCHANGED Others

\* list_schedules; the response's items are kept as the set of their ids
list_schedules(p, tenant) ==
    /\ Ready(p)
    /\ LET agent_ids == AgentIds(tenant)
           items == IF agent_ids = {} THEN {} ELSE SchedulesOfAgents(agent_ids)
       IN  resp' = Response("list_schedules", 200,
                            [tenant |-> tenant, items |-> items,
                             total |-> Cardinality(items)])
    /\ UNCHANGED <<db, req, Others>>

get_schedule(p, tenant, sid) ==
    /\ Ready(p)
    /\ resp' = IF sid \notin DOMAIN db
               THEN Response("get_schedule", 404, NoBody)
               ELSE IF ~OwnsSchedule(sid, tenant)
               THEN Response("get_schedule", 403, NoBody)
               ELSE Response("get_schedule", 200, NoBody)
    /\ UNCHANGED <<db, req, Others>>

UpdateKeys == {"interval", "publish_hour", "is_active"}

\* update_data.model_dump(exclude_unset=True): keys are the fields that are
\* set.  The requests of the model set at most one field.
Updates ==
    {u \in [keys : SUBSET UpdateKeys, interval : Intervals,
            publish_hour : Hours, is_active : BOOLEAN] :
        /\ Cardinality(u.keys) <= 1
        /\ "interval" \notin u.keys => u.interval = "daily"
        /\ "publish_hour" \notin u.keys => u.publish_hour = 9
        /\ "is_active" \notin u.keys => u.is_active = TRUE}

\* for key, value in update_dict.items(): setattr(schedule, key, value)
SetAttrs(row, u) ==
    [row EXCEPT
        !.interval     = IF "interval" \in u.keys THEN u.interval ELSE @,
        !.publish_hour = IF "publish_hour" \in u.keys THEN u.publish_hour ELSE @,
        !.is_active    = IF "is_active" \in u.keys THEN u.is_active ELSE @]

update_schedule(p, tenant, sid, u) ==
    /\ Ready(p)
    /\ IF sid \notin DOMAIN db
       THEN /\ resp' = Response("update_schedule", 404, NoBody)
            /\ UNCHANGED db
       ELSE IF ~OwnsSchedule(sid, tenant)
       THEN /\ resp' = Response("update_schedule", 403, NoBody)
            /\ UNCHANGED db
       ELSE LET set == SetAttrs(db[sid], u)
                row == IF "interval" \in u.keys \/ "publish_hour" \in u.keys
                       THEN [set EXCEPT !.next_run_at =
                                calculate_next_run(get_cron_expression(set), clock)]
                       ELSE set
            IN  /\ db' = [db EXCEPT ![sid] = row]
                /\ resp' = Response("update_schedule", 200, NoBody)
    /\ UNCHANGED <<req, Others>>

delete_schedule(p, tenant, sid) ==
    /\ Ready(p)
    /\ IF sid \notin DOMAIN db
       THEN /\ resp' = Response("delete_schedule", 404, NoBody)
            /\ UNCHANGED db
       ELSE IF ~OwnsSchedule(sid, tenant)
       THEN /\ resp' = Response("delete_schedule", 403, NoBody)
            /\ UNCHANGED db
       ELSE /\ db' = Delete(sid)
            /\ resp' = Response("delete_schedule", 204, NoBody)
    /\ UNCHANGED <<req, Others>>

\* run_schedule_now; queued = FALSE is a .delay() that raises (broker down)
run_schedule_now(p, tenant, sid, queued) ==
    /\ Ready(p)
    /\ IF sid \notin DOMAIN db
       THEN /\ resp' = Response("run_schedule_now", 404, NoBody)
            /\ UNCHANGED celery
       ELSE IF ~OwnsSchedule(sid, tenant)
       THEN /\ resp' = Response("run_schedule_now", 403, NoBody)
            /\ UNCHANGED celery
       ELSE IF queued
       THEN /\ Len(celery) < MaxQueue
            /\ celery' = Append(celery, sid)
            /\ resp' = Response("run_schedule_now", 200, [success |-> TRUE])
       ELSE /\ resp' = Response("run_schedule_now", 200, [success |-> FALSE])
            /\ UNCHANGED celery
    /\ UNCHANGED <<db, req, CRON_SECRET, clock, fetched>>

toggle_schedule(p, tenant, sid) ==
    /\ Ready(p)
    /\ IF sid \notin DOMAIN db
       THEN /\ resp' = Response("toggle_schedule", 404, NoBody)
            /\ UNCHANGED db
       ELSE IF ~OwnsSchedule(sid, tenant)
       THEN /\ resp' = Response("toggle_schedule", 403, NoBody)
            /\ UNCHANGED db
       ELSE LET active == ~db[sid].is_active
                next == IF active
                        THEN calculate_next_run(get_cron_expression(db[sid]), clock)
                        ELSE Null
            IN  /\ db' = [db EXCEPT ![sid].is_active = active,
                                    ![sid].next_run_at = next]
                /\ resp' = Response("toggle_schedule", 200, NoBody)
    /\ UNCHANGED <<req, Others>>


(***************************************************************************)
(* Stats aggregator                                                        *)
(***************************************************************************)
\* datetime.isoformat(): "2024-01-DDTHH:00:00"; the digits of DD and HH (the
\* rest of the string is the same for every instant of January 2024)
isoformat(t) ==
    LET dd == (t \div 24) + 1
        hh == t % 24
    IN  <<dd \div 10, dd % 10, hh \div 10, hh % 10>>

RECURSIVE StrLess(_, _)
\* Python's < on strings: lexicographic, a proper prefix is smaller
StrLess(a, b) ==
    IF b = <<>> THEN FALSE
    ELSE IF a = <<>> THEN TRUE
    ELSE IF Head(a) # Head(b) THEN Head(a) < Head(b)
    ELSE StrLess(Tail(a), Tail(b))

RECURSIVE InsertAfterEqual(_, _)
\* e goes behind every element whose key is not greater than its own
InsertAfterEqual(sorted, e) ==
    IF sorted = <<>> THEN <<e>>
    ELSE IF StrLess(e.next_run_at, Head(sorted).next_run_at)
    THEN <<e>> \o sorted
    ELSE <<Head(sorted)>> \o InsertAfterEqual(Tail(sorted), e)

RECURSIVE SortByNextRun(_)
\* upcoming.sort(key=lambda x: x["next_run_at"]): list.sort is stable
SortByNextRun(upcoming) ==
    IF upcoming = <<>> THEN <<>>
    ELSE InsertAfterEqual(SortByNextRun(SubSeq(upcoming, 1, Len(upcoming) - 1)),
                          upcoming[Len(upcoming)])

\* ScheduleConfig.get_interval_display
get_interval_display(s) == IF s.interval = "daily" THEN "Daily" ELSE "Weekly"

\* the upcoming loop without its is_active test
UpcomingIgnoringActive(schedules) ==
    LET Entry(sid) == [schedule_id |-> sid,
                       next_run_at |-> isoformat(db[sid].next_run_at),
                       agent_name  |-> AgentName(db[sid].agent_id),
                       interval    |-> get_interval_display(db[sid])]
        keep == SelectSeq(schedules, LAMBDA sid : db[sid].next_run_at # Null)
    IN  [i \in DOMAIN keep |-> Entry(keep[i])]

\* the loop that fills upcoming: active schedules with a next_run_at, in the
\* order of schedules
Upcoming(schedules) ==
    LET Entry(sid) == [schedule_id |-> sid,
                       next_run_at |-> isoformat(db[sid].next_run_at),
                       agent_name  |-> AgentName(db[sid].agent_id),
                       interval    |-> get_interval_display(db[sid])]
        keep == SelectSeq(schedules,
                    LAMBDA sid : db[sid].is_active /\ db[sid].next_run_at # Null)
    IN  [i \in DOMAIN keep |-> Entry(keep[i])]

\* success_rate cut off after two decimals
SuccessRateTruncated(successful, total_generated) ==
    IF total_generated > 0 THEN (successful * 10000) \div total_generated ELSE 0

\* round(successful / total_generated * 100, 2) in hundredths of a percent,
\* 0.0 when total_generated is 0.  No quotient s * 10000 / t lies halfway
\* between two hundredths unless t is a multiple of 32.
SuccessRate(successful, total_generated) ==
    IF total_generated > 0
    THEN (2 * successful * 10000 + total_generated) \div (2 * total_generated)
    ELSE 0

EmptyStats ==
    [total_schedules |-> 0, active_schedules |-> 0, total_posts_generated |-> 0,
     successful_posts |-> 0, failed_posts |-> 0, success_rate |-> 0,
     upcoming_posts |-> <<>>]

\* the body of get_schedule_stats after the select returned schedules
StatsOf(schedules) ==
    LET total == Len(schedules)
        active == Cardinality({i \in DOMAIN schedules : db[schedules[i]].is_active})
        total_generated ==
            SumOver([i \in DOMAIN schedules |-> db[schedules[i]].total_posts_generated], 1)
        successful ==
            SumOver([i \in DOMAIN schedules |-> db[schedules[i]].successful_posts], 1)
        failed ==
            SumOver([i \in DOMAIN schedules |-> db[schedules[i]].failed_posts], 1)
        upcoming == SortByNextRun(Upcoming(schedules))
    IN  [total_schedules |-> total, active_schedules |-> active,
         total_posts_generated |-> total_generated,
         successful_posts |-> successful, failed_posts |-> failed,
         success_rate |-> SuccessRate(successful, total_generated),
         upcoming_posts |-> SubSeq(upcoming, 1, Min(UpcomingLimit, Len(upcoming)))]

\* get_schedule_stats; schedules is the select's result in the store's order
get_schedule_stats(p, tenant, schedules) ==
    /\ Ready(p)
    /\ LET agent_ids == AgentIds(tenant)
       IN  IF agent_ids = {}
           THEN /\ schedules = <<>>
                /\ resp' = Response("get_schedule_stats", 200,
                                    [tenant |-> tenant, stats |-> EmptyStats])
           ELSE /\ Range(schedules) = SchedulesOfAgents(agent_ids)
                /\ Len(schedules) = Cardinality(SchedulesOfAgents(agent_ids))
                /\ resp' = Response("get_schedule_stats", 200,
                                    [tenant |-> tenant, stats |-> StatsOf(schedules)])
    /\ fetched' = schedules
    /\ UNCHANGED <<db, req, CRON_SECRET, clock, celery>>

(***************************************************************************)
(* Cron trigger endpoint.  A step ends at each round trip to the store:    *)
(* the select, each commit; the dispatch that follows a commit is a step   *)
(* of its own.                                                             *)
(***************************************************************************)
\* the expected secret without CRON_SECRET
expected_secret_jwt == JWT_SECRET

\* settings.CRON_SECRET or settings.JWT_SECRET
expected_secret == IF CRON_SECRET # NoSecret THEN CRON_SECRET ELSE JWT_SECRET

\* the secret check, now = utcnow() and the select of the due schedules;
\* at_select records the table as the select saw it
trigger_begin(p, x_cron_secret) ==
    /\ Ready(p)
    /\ IF x_cron_secret # expected_secret
       THEN /\ resp' = Response("trigger_due_schedules", 403, NoBody)
            /\ UNCHANGED req
       ELSE /\ \E due \in Orders(DueSchedules(clock)) :
                  req' = [req EXCEPT ![p] =
                             [pc |-> "advance", now |-> clock, due |-> due,
                              selected |-> Range(due), at_select |-> db,
                              session |-> "active", commit_errors |-> {},
                              triggered_ids |-> <<>>, background_tasks |-> <<>>]]
            /\ UNCHANGED resp
    /\ UNCHANGED <<db, Others>>

\* the except branch: the error is logged and the loop goes on with the
\* next schedule.  There is no db.rollback(): a commit that raised leaves
\* the session's transaction rolled back and inactive, the pending
\* next_run_at is discarded and every later use of the session raises.
SkipSchedule(p) ==
    req' = [req EXCEPT ![p].due = Tail(@), ![p].session = "inactive"]

\* the loop body going on to add_task with nothing written to the store
trigger_advance_uncommitted(p) ==
    /\ req[p].pc = "advance"
    /\ req[p].due # <<>>
    /\ LoopFree
    /\ req' = [req EXCEPT ![p].pc = "dispatch"]
    /\ UNCHANGED <<db, resp, Others>>

\* schedule.next_run_at = calculate_next_run(...); await db.commit().
\* The UPDATE of a row that is gone fails (StaleDataError), and so does
\* anything on a session that is inactive.
trigger_advance(p) ==
    /\ req[p].pc = "advance"
    /\ req[p].due # <<>>
    /\ LoopFree
    /\ LET sid == Head(req[p].due)
           schedule == req[p].at_select[sid]
       IN  IF req[p].session = "active" /\ sid \in DOMAIN db
           THEN /\ db' = [db EXCEPT ![sid].next_run_at =
                             calculate_next_run(get_cron_expression(schedule), clock)]
                /\ req' = [req EXCEPT ![p].pc = "dispatch"]
           ELSE /\ SkipSchedule(p)
                /\ UNCHANGED db
    /\ UNCHANGED <<resp, Others>>

\* the commit with the pending next_run_at written and then kept by the
\* store although it raised
trigger_commit_error_kept(p) ==
    /\ req[p].pc = "advance"
    /\ req[p].due # <<>>
    /\ LoopFree
    /\ req[p].session = "active"
    /\ LET sid == Head(req[p].due)
       IN  /\ sid \in DOMAIN db
           /\ db' = [db EXCEPT ![sid].next_run_at =
                        calculate_next_run(get_cron_expression(req[p].at_select[sid]),
                                           clock)]
           /\ req' = [req EXCEPT ![p].due = Tail(@), ![p].session = "inactive",
                                  ![p].commit_errors = @ \cup {sid}]
    /\ UNCHANGED <<resp, Others>>

\* await db.commit() raises on a session that was usable (the store
\* rejects the UPDATE or cannot be reached): nothing is written for the
\* schedule; commit_errors records the schedules this happened to
trigger_commit_error(p) ==
    /\ req[p].pc = "advance"
    /\ req[p].due # <<>>
    /\ LoopFree
    /\ req[p].session = "active"
    /\ LET sid == Head(req[p].due)
       IN  /\ sid \in DOMAIN db
           /\ req' = [req EXCEPT ![p].due = Tail(@), ![p].session = "inactive",
                                  ![p].commit_errors = @ \cup {sid}]
    /\ UNCHANGED <<db, resp, Others>>

\* background_tasks.add_task(...); triggered_ids.append(...)
trigger_dispatch(p) ==
    /\ req[p].pc = "dispatch"
    /\ LoopFree
    /\ LET sid == Head(req[p].due)
       IN  req' = [req EXCEPT ![p].pc = "advance",
                              ![p].due = Tail(@),
                              ![p].background_tasks = Append(@, sid),
                              ![p].triggered_ids = Append(@, sid)]
    /\ UNCHANGED <<db, resp, Others>>

\* what is left of a request once its response is made: the background
\* tasks, which run after the response has been sent
Background(tasks) ==
    IF tasks = <<>> THEN Idle ELSE [pc |-> "background", tasks |-> tasks]

\* the 202 response once the loop is over
trigger_return(p) ==
    /\ req[p].pc = "advance"
    /\ req[p].due = <<>>
    /\ resp = NoResponse
    /\ LoopFree
    /\ resp' = Response("trigger_due_schedules", 202,
                        [triggered_schedules |-> req[p].triggered_ids,
                         checked_at |-> req[p].now])
    /\ req' = [req EXCEPT ![p] = Background(req[p].background_tasks)]
    /\ UNCHANGED <<db, Others>>

(***************************************************************************)
(* Background tasks and the auto-publish worker                            *)
(***************************************************************************)
\* how a run of auto_generate_and_publish ends: a post was made, the run
\* failed and recorded it, or it raised
Outcomes == {"success", "failure", "raised"}

\* the worker's update of its schedule: one more post generated, counted as
\* successful or as failed; nothing when it raised
auto_generate_and_publish(row, outcome) ==
    IF outcome = "raised" THEN row
    ELSE [row EXCEPT
            !.total_posts_generated = @ + 1,
            !.successful_posts = IF outcome = "success" THEN @ + 1 ELSE @,
            !.failed_posts     = IF outcome = "failure" THEN @ + 1 ELSE @]

\* the next background task starts once the response has been sent:
\* run_auto_publish_for_schedule enters auto_generate_and_publish
worker_start(p) ==
    /\ req[p].pc = "background"
    /\ resp = NoResponse
    /\ LoopFree
    /\ req' = [req EXCEPT ![p].pc = "working"]
    /\ UNCHANGED <<db, resp, Others>>

\* auto_generate_and_publish comes back, or raises and the except branch of
\* run_auto_publish_for_schedule returns success: False.  A worker that
\* hangs never takes this step.
worker_finish(p, outcome) ==
    /\ req[p].pc = "working"
    /\ LET sid == Head(req[p].tasks)
       IN  db' = IF sid \in DOMAIN db
                 THEN [db EXCEPT ![sid] = auto_generate_and_publish(@, outcome)]
                 ELSE db
    /\ req' = [req EXCEPT ![p] = Background(Tail(req[p].tasks))]
    /\ UNCHANGED <<resp, Others>>

(***************************************************************************)
(* Specifications                                                          *)
(***************************************************************************)
\* tenants of the users that send the requests on single schedules
Users == {"T1", "T2"}

\* schedule ids the requests name: every stored one and one that is unknown
TargetIds == DOMAIN db \cup FreshIds

\* the handlers that write the schedule table
Writer(p) ==
    \/ \E tenant \in Users, data \in CreateData : create_schedule(p, tenant, data)
    \/ \E tenant \in Users, sid \in TargetIds, u \in Updates :
          update_schedule(p, tenant, sid, u)
    \/ \E tenant \in Users, sid \in TargetIds : delete_schedule(p, tenant, sid)
    \/ \E tenant \in Users, sid \in TargetIds : toggle_schedule(p, tenant, sid)

\* the handlers that read it, and the manual run
Reader(p) ==
    \/ \E tenant \in Tenants : list_schedules(p, tenant)
    \/ \E tenant \in Tenants :
          \E schedules \in Orders(SchedulesOfAgents(AgentIds(tenant))) :
             get_schedule_stats(p, tenant, schedules)
    \/ \E tenant \in Users, sid \in TargetIds : get_schedule(p, tenant, sid)
    \/ \E tenant \in Users, sid \in TargetIds, queued \in BOOLEAN :
          run_schedule_now(p, tenant, sid, queued)

\* the cron trigger endpoint
Trigger(p) ==
    \/ \E x_cron_secret \in Headers : trigger_begin(p, x_cron_secret)
    \/ trigger_advance(p)
    \/ trigger_dispatch(p)
    \/ trigger_return(p)

\* the background tasks of a request, with the given ways for a run to end
Worker(p, outcomes) ==
    \/ worker_start(p)
    \/ \E outcome \in outcomes : worker_finish(p, outcome)

\* the schedule lifecycle: requests that write the table and the cron
\* trigger, served one after the other while time passes; the workers end
\* without recording a post
Next == Tick \/ Deliver \/ Writer(1) \/ Trigger(1) \/ Worker(1, {"raised"})

Spec == Init /\ [][Next]_vars

\* the cron trigger under either configuration of CRON_SECRET
InitCron ==
    /\ clock = 8
    /\ CRON_SECRET \in {NoSecret, "cron"}
    /\ db = <<>>
    /\ req = [p \in Slots |-> Idle]
    /\ resp = NoResponse
    /\ celery = <<>>
    /\ fetched = <<>>

NextCron ==
    \/ Tick
    \/ Deliver
    \/ \E tenant \in Users, data \in CreateData : create_schedule(1, tenant, data)
    \/ Trigger(1)
    \/ Worker(1, Outcomes)

SpecCron == InitCron /\ [][NextCron]_vars

\* the user-facing API, requests served one after the other
NextApi == Deliver \/ Writer(1) \/ Reader(1)

SpecApi == Init /\ [][NextApi]_vars

\* create requests of overlapping requests: one agent, one payload
ConcData == {data \in CreateData :
                data.agent_id = 1 /\ data.interval = "daily" /\ data.is_active}

\* overlapping requests: two slots, create_schedule in its two steps
NextConc ==
    \/ Tick
    \/ Deliver
    \/ \E p \in Slots :
          \/ \E data \in ConcData : create_check(p, "T1", data)
          \/ create_commit(p)
          \/ \E sid \in TargetIds : delete_schedule(p, "T1", sid)
          \/ Trigger(p)
          \/ Worker(p, Outcomes)

SpecConc == Init /\ [][NextConc]_vars

\* the cron trigger with commits that may raise
NextFail ==
    \/ Tick
    \/ Deliver
    \/ \E tenant \in Users, data \in CreateData : create_schedule(1, tenant, data)
    \/ Trigger(1)
    \/ trigger_commit_error(1)
    \/ Worker(1, Outcomes)

SpecFail == Init /\ [][NextFail]_vars

(***************************************************************************)
(* The stats aggregator on tables of up to MaxStatRows rows.  A row is of  *)
(* one of the kinds below; row i has id i and the kinds do not decrease    *)
(* with the id, which yields every multiset of kinds once.  The select     *)
(* returns the rows in any order, so every arrangement of ids, run times   *)
(* and counters against the store's order is covered.                      *)
(***************************************************************************)
StatKinds ==
    << [own |-> TRUE,  is_active |-> TRUE,  next_run_at |-> 9,
        total_posts_generated |-> 1, successful_posts |-> 1, failed_posts |-> 0],
       [own |-> TRUE,  is_active |-> TRUE,  next_run_at |-> 10,
        total_posts_generated |-> 1, successful_posts |-> 0, failed_posts |-> 1],
       [own |-> TRUE,  is_active |-> TRUE,  next_run_at |-> Null,
        total_posts_generated |-> 0, successful_posts |-> 0, failed_posts |-> 0],
       [own |-> TRUE,  is_active |-> FALSE, next_run_at |-> 9,
        total_posts_generated |-> 1, successful_posts |-> 0, failed_posts |-> 0],
       [own |-> FALSE, is_active |-> TRUE,  next_run_at |-> 9,
        total_posts_generated |-> 2, successful_posts |-> 2, failed_posts |-> 0] >>

\* row i of kind k: agent i of T1, or agent MaxStatRows + i of T2
StatRow(k, i) ==
    [agent_id     |-> IF StatKinds[k].own THEN i ELSE MaxStatRows + i,
     interval     |-> "daily",
     publish_hour |-> IF StatKinds[k].next_run_at = 10 THEN 10 ELSE 9,
     is_active    |-> StatKinds[k].is_active,
     next_run_at  |-> StatKinds[k].next_run_at,
     total_posts_generated |-> StatKinds[k].total_posts_generated,
     successful_posts      |-> StatKinds[k].successful_posts,
     failed_posts          |-> StatKinds[k].failed_posts]

StatTables ==
    UNION {{[i \in 1..n |-> StatRow(ks[i], i)] :
               ks \in {f \in [1..n -> DOMAIN StatKinds] :
                          \A i \in 1..n : \A j \in 1..n : i <= j => f[i] <= f[j]}} :
           n \in 0..MaxStatRows}

InitStats ==
    /\ clock = 8
    /\ CRON_SECRET = NoSecret
    /\ db \in StatTables
    /\ req = [p \in Slots |-> Idle]
    /\ resp = NoResponse
    /\ celery = <<>>
    /\ fetched = <<>>

\* one request on each table
NextStats ==
    /\ Ready(1)
    /\ \E tenant \in Tenants :
          \E schedules \in Orders(SchedulesOfAgents(AgentIds(tenant))) :
             get_schedule_stats(1, tenant, schedules)

SpecStats == InitStats /\ [][NextStats]_vars

(***************************************************************************)
(* Properties                                                              *)
(***************************************************************************)
Abs(x) == IF x < 0 THEN -x ELSE x

\* position of an element in a sequence without repetitions
Pos(s, x) == CHOOSE i \in DOMAIN s : s[i] = x

\* the tenant that owns a stored schedule
OwnerOf(sid) == TenantOf(db[sid].agent_id)

\* C1: in every reachable state of the lifecycle, a stored schedule has a
\* null next_run_at exactly when it is inactive.
NextRunNullIffInactive ==
    \A sid \in DOMAIN db : (db[sid].next_run_at = Null) <=> ~db[sid].is_active

\* C2: when the loop of a trigger invocation is over, every schedule that
\* was active with next_run_at <= now when the select ran has a next_run_at
\* after now, is listed once in triggered_ids and has one background task.
TriggerAdvancesAndDispatchesOnce ==
    \A p \in Slots :
       (req[p].pc = "advance" /\ req[p].due = <<>>) =>
          \A sid \in DOMAIN req[p].at_select :
             LET was == req[p].at_select[sid]
             IN  (was.is_active /\ was.next_run_at # Null
                    /\ was.next_run_at <= req[p].now)
                 => /\ sid \in DOMAIN db
                    /\ db[sid].next_run_at > req[p].now
                    /\ Count(req[p].triggered_ids, sid) = 1
                    /\ Count(req[p].background_tasks, sid) = 1

\* C2 witness: an invocation finished its loop after dispatching two due
\* schedules.
TriggerDispatchedTwo ==
    \E p \in Slots :
       /\ req[p].pc = "advance"
       /\ req[p].due = <<>>
       /\ Len(req[p].triggered_ids) = 2
       /\ \A sid \in Range(req[p].triggered_ids) :
             req[p].at_select[sid].next_run_at <= req[p].now

\* C3: while the clock still shows the instant checked_at of a trigger
\* response (no time has passed since that invocation's select), the select
\* of a second invocation contains none of the schedules the response lists
\* as triggered.
NoRetriggerWithoutElapsedTime ==
    (/\ resp.op = "trigger_due_schedules"
     /\ resp.status = 202
     /\ resp.body.checked_at = clock)
    => \A sid \in Range(resp.body.triggered_schedules) : sid \notin DueSchedules(clock)

\* C3 witness: an invocation has just dispatched a schedule that is stored
\* and active, and no time has passed.
TriggeredAtThisInstant ==
    /\ resp.op = "trigger_due_schedules"
    /\ resp.status = 202
    /\ resp.body.checked_at = clock
    /\ \E sid \in Range(resp.body.triggered_schedules) :
          sid \in DOMAIN db /\ db[sid].is_active

\* C4: a trigger request whose X-Cron-Secret is absent or differs from
\* CRON_SECRET (JWT_SECRET when CRON_SECRET is not set) is answered 403,
\* changes no schedule, starts no invocation and queues no job.
BadSecretRejected ==
    [][\A h \in Headers :
          (/\ h # (IF CRON_SECRET = NoSecret THEN JWT_SECRET ELSE CRON_SECRET)
           /\ trigger_begin(1, h))
          => (/\ resp'.op = "trigger_due_schedules"
              /\ resp'.status = 403
              /\ db' = db
              /\ req' = req
              /\ celery' = celery)]_vars

\* C4 witness: with CRON_SECRET set, a request was answered 403 while a
\* schedule was due.
RejectedWhileDue ==
    /\ resp.op = "trigger_due_schedules"
    /\ resp.status = 403
    /\ CRON_SECRET = "cron"
    /\ req[1].pc = "idle"
    /\ \E sid \in DOMAIN db :
          db[sid].is_active /\ db[sid].next_run_at # Null /\ db[sid].next_run_at <= clock

\* x is the first instant after t at which schedule s runs: the first
\* publish_hour:00 after t, on a Monday for a weekly schedule
RunsAt(s, x) ==
    (x % 24 = s.publish_hour) /\ (s.interval = "weekly" => (x \div 24) % 7 = 0)

IsFirstRunAfter(s, t, x) ==
    /\ x > t
    /\ RunsAt(s, x)
    /\ \A y \in (t + 1)..(x - 1) : ~RunsAt(s, y)

\* C5: the next_run_at stored by create_schedule, by an activating
\* toggle_schedule, and by any step that stores a new non-null next_run_at,
\* is the first run instant of the schedule strictly after the current time.
NextRunIsFirstAfterNow ==
    [][/\ (resp'.op = "create_schedule" /\ resp'.status = 201)
          => \A tenant \in Users, data \in CreateData :
                create_schedule(1, tenant, data)
                => \E sid \in DOMAIN db' \ DOMAIN db :
                      IsFirstRunAfter(db'[sid], clock, db'[sid].next_run_at)
       /\ (resp'.op = "toggle_schedule" /\ resp'.status = 200)
          => \A tenant \in Users, sid \in DOMAIN db :
                (~db[sid].is_active /\ toggle_schedule(1, tenant, sid))
                => IsFirstRunAfter(db'[sid], clock, db'[sid].next_run_at)
       /\ \A sid \in DOMAIN db' :
             (/\ db'[sid].next_run_at # Null
              /\ (sid \notin DOMAIN db \/ db[sid].next_run_at # db'[sid].next_run_at))
             => IsFirstRunAfter(db'[sid], clock, db'[sid].next_run_at)]_vars

\* C5 witness: a daily 09:00 schedule re-activated at 10:00 of the first day
\* runs next at 09:00 of the second day.
ReactivatedAtTen ==
    /\ clock = 10
    /\ resp.op = "toggle_schedule"
    /\ resp.status = 200
    /\ \E sid \in DOMAIN db :
          /\ db[sid].is_active
          /\ db[sid].interval = "daily"
          /\ db[sid].publish_hour = 9
          /\ db[sid].next_run_at = 24 + 9

\* the step is a request of the tenant on the single schedule sid
OnSchedule(tenant, sid) ==
    \/ resp'.op = "get_schedule" /\ get_schedule(1, tenant, sid)
    \/ resp'.op = "update_schedule" /\ \E u \in Updates : update_schedule(1, tenant, sid, u)
    \/ resp'.op = "delete_schedule" /\ delete_schedule(1, tenant, sid)
    \/ resp'.op = "run_schedule_now"
          /\ \E queued \in BOOLEAN : run_schedule_now(1, tenant, sid, queued)
    \/ resp'.op = "toggle_schedule" /\ toggle_schedule(1, tenant, sid)

Untouched == db' = db /\ celery' = celery

\* a step that is a request of a tenant on a schedule of another tenant
\* answers 403 and changes nothing
ForeignScheduleDenied ==
    resp'.op \in {"get_schedule", "update_schedule", "delete_schedule",
                  "run_schedule_now", "toggle_schedule"}
    => \A tenant \in Users, sid \in DOMAIN db :
          (OwnerOf(sid) # tenant /\ OnSchedule(tenant, sid))
          => (resp'.status = 403 /\ Untouched)

\* a step that is a create_schedule of a tenant for an agent of another
\* tenant answers with the given status and changes nothing
ForeignAgentAnswered(status) ==
    resp'.op = "create_schedule"
    => \A tenant \in Tenants, data \in CreateData :
          (TenantOf(data.agent_id) # tenant /\ create_schedule(1, tenant, data))
          => (resp'.status = status /\ Untouched)

\* what list_schedules and get_schedule_stats return holds only schedules
\* of the tenant
ReadsOnlyOwn ==
    /\ resp'.op = "list_schedules"
       => \A tenant \in Tenants :
             list_schedules(1, tenant)
             => \A sid \in resp'.body.items :
                   sid \in DOMAIN db /\ OwnerOf(sid) = tenant
    /\ resp'.op = "get_schedule_stats"
       => \A tenant \in Tenants :
             \A schedules \in Orders(SchedulesOfAgents(AgentIds(tenant))) :
                get_schedule_stats(1, tenant, schedules)
                => /\ \A i \in DOMAIN resp'.body.stats.upcoming_posts :
                         OwnerOf(resp'.body.stats.upcoming_posts[i].schedule_id) = tenant
                   /\ resp'.body.stats.total_schedules =
                         Cardinality({sid \in DOMAIN db : OwnerOf(sid) = tenant})

\* C6 as stated: every request on a schedule or agent of another tenant,
\* create_schedule included, is answered 403 and changes nothing; the read
\* requests return only the tenant's schedules.
CrossTenantAlways403 ==
    [][ForeignScheduleDenied /\ ForeignAgentAnswered(403) /\ ReadsOnlyOwn]_vars

\* C6 amended: get, update, delete, run and toggle on a schedule of another
\* tenant are answered 403, create_schedule for an agent of another tenant is
\* answered 404; all of them change no schedule and queue no job; the lists
\* of list_schedules and get_schedule_stats hold only the tenant's schedules.
CrossTenantRejected ==
    [][ForeignScheduleDenied /\ ForeignAgentAnswered(404) /\ ReadsOnlyOwn]_vars

\* C6 witness: both tenants have a schedule and a toggle was answered 403.
CrossTenantToggleDenied ==
    /\ resp.op = "toggle_schedule"
    /\ resp.status = 403
    /\ \E s1 \in DOMAIN db, s2 \in DOMAIN db : OwnerOf(s1) = "T1" /\ OwnerOf(s2) = "T2"

\* C7: a create_schedule that reaches its commit when the agent already has
\* a schedule (another create committed after its existence check) is
\* answered 400 and leaves the table unchanged.
DuplicateCreateAnswered400 ==
    [][\A p \in Slots :
          (/\ create_commit(p)
           /\ SchedulesOfAgent(req[p].data.agent_id) # {})
          => (resp'.status = 400 /\ db' = db)]_vars

(***************************************************************************)
(* Properties of get_schedule_stats, under SpecStats                       *)
(***************************************************************************)
StatsAnswered == resp.op = "get_schedule_stats" /\ resp.status = 200

\* the schedules of a tenant that are active and have a next_run_at
Eligible(tenant) ==
    {sid \in DOMAIN db : /\ OwnerOf(sid) = tenant
                         /\ db[sid].is_active
                         /\ db[sid].next_run_at # Null}

\* the schedules an upcoming_posts list names
Listed(up) == {up[i].schedule_id : i \in DOMAIN up}

\* C8: upcoming_posts has at most 5 entries, names only active schedules of
\* the tenant that have a next_run_at, each once, in ascending order of the
\* stored next_run_at, and no schedule left out runs earlier than one that
\* is listed; fewer than 5 are listed only when no more are eligible.
UpcomingAreTheSoonestFive ==
    StatsAnswered =>
       LET up == resp.body.stats.upcoming_posts
           eligible == Eligible(resp.body.tenant)
       IN  /\ Len(up) <= 5
           /\ Listed(up) \subseteq eligible
           /\ Cardinality(Listed(up)) = Len(up)
           /\ Len(up) < 5 => Listed(up) = eligible
           /\ \A i \in DOMAIN up : \A j \in DOMAIN up :
                 i < j => db[up[i].schedule_id].next_run_at
                             <= db[up[j].schedule_id].next_run_at
           /\ \A sid \in eligible \ Listed(up) : \A i \in DOMAIN up :
                 db[up[i].schedule_id].next_run_at <= db[sid].next_run_at

\* C8 witness: five entries, the first earlier than the last, and an eligible
\* schedule cut off.
UpcomingCutAtFive ==
    /\ StatsAnswered
    /\ LET up == resp.body.stats.upcoming_posts
       IN  /\ Len(up) = 5
           /\ Eligible(resp.body.tenant) \ Listed(up) # {}
           /\ db[up[1].schedule_id].next_run_at < db[up[5].schedule_id].next_run_at

\* C9: entries of upcoming_posts with equal next_run_at are in the order of
\* their schedule ids, and a schedule cut off has a greater id than every
\* listed schedule with the same next_run_at.
TiesOrderedById ==
    StatsAnswered =>
       LET up == resp.body.stats.upcoming_posts
           at(sid) == db[sid].next_run_at
       IN  /\ \A i \in DOMAIN up : \A j \in DOMAIN up :
                 (i < j /\ at(up[i].schedule_id) = at(up[j].schedule_id))
                 => up[i].schedule_id < up[j].schedule_id
           /\ \A sid \in Eligible(resp.body.tenant) \ Listed(up) :
                 \A i \in DOMAIN up :
                    at(up[i].schedule_id) = at(sid) => up[i].schedule_id < sid

RECURSIVE SumOfSet(_, _)
\* the sum of f over the set S
SumOfSet(S, f) ==
    IF S = {} THEN 0
    ELSE LET x == CHOOSE y \in S : TRUE IN f[x] + SumOfSet(S \ {x}, f)

\* C10: with the sums taken over exactly the schedules of the tenant,
\* success_rate is 0 when the summed total_posts_generated is 0, and otherwise
\* the hundredth of a percent nearest to successful / total * 100.
SuccessRateIsRoundedQuotient ==
    StatsAnswered =>
       LET own == {sid \in DOMAIN db : OwnerOf(sid) = resp.body.tenant}
           total == SumOfSet(own, [sid \in own |-> db[sid].total_posts_generated])
           successful == SumOfSet(own, [sid \in own |-> db[sid].successful_posts])
           rate == resp.body.stats.success_rate
       IN  /\ resp.body.stats.total_posts_generated = total
           /\ resp.body.stats.successful_posts = successful
           /\ total = 0 => rate = 0
           /\ total > 0 => 2 * Abs(rate * total - 10000 * successful) <= total

\* C10 witness: 2 successful posts of 3 give 66.67 while another tenant has
\* posts of its own.
TwoThirdsRounded ==
    /\ StatsAnswered
    /\ resp.body.stats.successful_posts = 2
    /\ resp.body.stats.total_posts_generated = 3
    /\ resp.body.stats.success_rate = 6667
    /\ \E sid \in DOMAIN db : /\ OwnerOf(sid) # resp.body.tenant
                              /\ db[sid].total_posts_generated > 0

(***************************************************************************)
(* Properties of the trigger endpoint and its workers                      *)
(***************************************************************************)
\* C11: when a schedule id is handed to the background tasks, the store
\* already holds the schedule with a next_run_at after the invocation's now
\* and different from the one selected; no step of a worker, however its run
\* ends, changes the next_run_at of any schedule.
AdvanceCommittedBeforeDispatch ==
    [][\A p \in Slots :
          /\ trigger_dispatch(p)
             => LET sid == Head(req[p].due)
                IN  /\ sid \in DOMAIN db
                    /\ db[sid].next_run_at > req[p].now
                    /\ db[sid].next_run_at # req[p].at_select[sid].next_run_at
          /\ (worker_start(p) \/ \E outcome \in Outcomes : worker_finish(p, outcome))
             => /\ DOMAIN db' = DOMAIN db
                /\ \A sid \in DOMAIN db :
                      db'[sid].next_run_at = db[sid].next_run_at]_vars

\* C11 witness: a worker is running for a schedule that another run has
\* already recorded as failed, and the schedule's next_run_at lies ahead.
WorkerRunsAfterAdvance ==
    \E p \in Slots :
       /\ req[p].pc = "working"
       /\ LET sid == Head(req[p].tasks)
          IN  /\ sid \in DOMAIN db
              /\ db[sid].failed_posts > 0
              /\ db[sid].next_run_at > clock

\* invocation p has committed the advanced next_run_at of schedule sid
Committed(p, sid) ==
    /\ req[p].pc \in {"advance", "dispatch"}
    /\ \/ sid \in Range(req[p].triggered_ids)
       \/ req[p].pc = "dispatch" /\ Head(req[p].due) = sid

\* C12: a due-selection that runs after an overlapping invocation committed
\* the advanced next_run_at of a schedule returns that schedule only at a
\* time later than that invocation's now, when the stored next_run_at has
\* been reached; so both dispatch a schedule at the same time only if the
\* second selected before the first one's commit.
SelectAfterCommitSkips ==
    [][\A q \in Slots, h \in Headers :
          (trigger_begin(q, h) /\ req'[q].pc = "advance")
          => \A sid \in req'[q].selected : \A p \in Slots \ {q} :
                Committed(p, sid)
                => (clock > req[p].now /\ db[sid].next_run_at <= clock)]_vars

\* C12 witness: two overlapping invocations with the same now have both
\* dispatched the same schedule.
DispatchedByBoth ==
    \E sid \in ScheduleIds :
       /\ \A p \in Slots : req[p].pc = "advance" /\ sid \in Range(req[p].triggered_ids)
       /\ req[1].now = req[2].now

\* invocation p has left its loop
LoopOver(p) == req[p].pc = "advance" /\ req[p].due = <<>>

\* C13: when the loop of an invocation is over, a selected schedule whose
\* commit raised is neither listed nor given a background task, and every
\* other selected schedule has been advanced, listed once and given one
\* background task.
OtherSchedulesStillDispatched ==
    \A p \in Slots :
       LoopOver(p) =>
          \A sid \in req[p].selected :
             IF sid \in req[p].commit_errors
             THEN /\ Count(req[p].triggered_ids, sid) = 0
                  /\ Count(req[p].background_tasks, sid) = 0
             ELSE /\ db[sid].next_run_at > req[p].now
                  /\ Count(req[p].triggered_ids, sid) = 1
                  /\ Count(req[p].background_tasks, sid) = 1

\* C14: when the loop of an invocation is over, the stored next_run_at of a
\* selected schedule differs from the selected one exactly when the schedule
\* has a background task; a schedule whose commit raised has its row as it
\* was selected and is due at the current time.
AdvancedIffQueued ==
    \A p \in Slots :
       LoopOver(p) =>
          \A sid \in req[p].selected :
             /\ (db[sid].next_run_at # req[p].at_select[sid].next_run_at)
                   <=> (Count(req[p].background_tasks, sid) = 1)
             /\ sid \in req[p].commit_errors
                   => (db[sid] = req[p].at_select[sid] /\ sid \in DueSchedules(clock))

\* C14 witness: an invocation dispatched one schedule and the commit of
\* another one raised.
DispatchedOneFailedOne ==
    \E p \in Slots :
       /\ LoopOver(p)
       /\ req[p].triggered_ids # <<>>
       /\ req[p].commit_errors # {}

\* C15: a new schedule, an update that sets interval or publish_hour, a step
\* that turns is_active from false to true and the commit of a fired
\* schedule all store the first run instant after the current time; an
\* update that sets neither interval nor publish_hour keeps next_run_at.
RecomputedWheneverRequired ==
    [][/\ \A sid \in DOMAIN db' \ DOMAIN db :
             IsFirstRunAfter(db'[sid], clock, db'[sid].next_run_at)
       /\ \A sid \in DOMAIN db \cap DOMAIN db' :
             (~db[sid].is_active /\ db'[sid].is_active)
             => IsFirstRunAfter(db'[sid], clock, db'[sid].next_run_at)
       /\ (resp'.op = "update_schedule" /\ resp'.status = 200)
          => \A tenant \in Users, sid \in DOMAIN db, u \in Updates :
                update_schedule(1, tenant, sid, u)
                => IF u.keys \cap {"interval", "publish_hour"} # {}
                   THEN IsFirstRunAfter(db'[sid], clock, db'[sid].next_run_at)
                   ELSE db'[sid].next_run_at = db[sid].next_run_at
       /\ \A p \in Slots :
             (trigger_advance(p) /\ req'[p].pc = "dispatch")
             => LET sid == Head(req[p].due)
                IN  IsFirstRunAfter(db'[sid], clock, db'[sid].next_run_at)]_vars

\* C16: a worker that has started and not finished does not block a later
\* poll: while it runs, a trigger request with the expected secret can
\* still be taken up by a free slot.
WorkerNeverBlocksTrigger ==
    \A p \in Slots : \A q \in Slots \ {p} :
       (req[p].pc = "working" /\ req[q].pc = "idle" /\ resp = NoResponse)
       => ENABLED trigger_begin(q, expected_secret)

=============================================================================
